---- MODULE Spec2Model ----
(***************************************************************************)
(* A model of the three scripts of the OCR-to-training-data pipeline:      *)
(*   prepare.py                  the corpus-to-tensor codec                *)
(*   combine_extracted_texts.py  the consolidation of per-document texts   *)
(*   ocr_google_vision.py        the OCR extraction command line           *)
(* Text is a sequence of code points (naturals), so that the ordering of   *)
(* characters and names is the ordering Python uses.                       *)
(***************************************************************************)
EXTENDS Integers, Sequences, FiniteSets, TLC

(***************************************************************************)
(* Bounds of the model.                                                    *)
(***************************************************************************)
\* longest freely chosen head of a corpus
MaxHead == 2
\* longest run of one filler character that follows the head of a corpus
MaxPad == 9
\* longest string handed to encode from outside the script
MaxProbe == 2
\* most entries the consolidation root holds
MaxEntries == 3
\* most PDF files the batch directory holds
MaxPdfs == 2
\* most pages a PDF converts to
MaxPages == 2
\* most distinct characters of a corpus beyond the 65536 values of uint16
MaxOver == 1
\* most characters of a stretch of a split
MaxStretch == 3

(***************************************************************************)
(* Text helpers shared by the three scripts.                               *)
(***************************************************************************)
\* the characters corpora and documents are drawn from: "\n", "a", "b"
Alphabet == {10, 97, 98}

\* the filler of a corpus tail: "="
Filler == {61}

\* all strings over S of length at most n
Strs(S, n) == UNION {[1..k -> S] : k \in 0..n}

\* str.strip() strips the characters for which str.isspace() holds
IsSpace(c) == c \in {9, 10, 11, 12, 13, 28, 29, 30, 31, 32, 133, 160}

RECURSIVE LStrip(_)
LStrip(s) == IF s # <<>> /\ IsSpace(Head(s)) THEN LStrip(Tail(s)) ELSE s

RECURSIVE RStrip(_)
RStrip(s) ==
  IF s # <<>> /\ IsSpace(s[Len(s)]) THEN RStrip(SubSeq(s, 1, Len(s) - 1)) ELSE s

Strip(s) == RStrip(LStrip(s))

\* s[:k] for k >= 0
Prefix(s, k) == SubSeq(s, 1, IF k < Len(s) THEN k ELSE Len(s))

\* s[k:] for k >= 0
Suffix(s, k) == SubSeq(s, (IF k < Len(s) THEN k ELSE Len(s)) + 1, Len(s))

\* the set of the elements of a sequence
Range(s) == {s[i] : i \in DOMAIN s}

(***************************************************************************)
(* IEEE-754 double arithmetic of int(n*0.9), on little-endian bit strings. *)
(***************************************************************************)
\* the 53-bit significand of the double 0.9 = 8106479329266893 * 2^-53,
\* least significant bit first
Mant09 ==
  << 1,0,1,1, 0,0,1,1, 0,0,1,1, 0,0,1,1, 0,0,1,1, 0,0,1,1, 0,0,1,1,
     0,0,1,1, 0,0,1,1, 0,0,1,1, 0,0,1,1, 0,0,1,1, 0,0,1,1, 1 >>

\* the width of a double's significand
MantBits == Len(Mant09)

RECURSIVE ToBits(_)
ToBits(k) == IF k = 0 THEN <<>> ELSE <<k % 2>> \o ToBits(k \div 2)

RECURSIVE FromBits(_)
FromBits(b) == IF b = <<>> THEN 0 ELSE Head(b) + 2 * FromBits(Tail(b))

\* the exact product bits * n
RECURSIVE MulBits(_, _, _)
MulBits(b, n, carry) ==
  IF b = <<>> THEN ToBits(carry)
  ELSE LET t == Head(b) * n + carry
       IN  <<t % 2>> \o MulBits(Tail(b), n, t \div 2)

RECURSIVE IncBits(_)
IncBits(b) ==
  IF b = <<>> THEN <<1>>
  ELSE IF Head(b) = 0 THEN <<1>> \o Tail(b)
  ELSE <<0>> \o IncBits(Tail(b))

\* float(n) * 0.9 rounded to nearest, ties to even: the significand kept and
\* the number of low bits dropped
FloatMul09(n) ==
  LET p     == MulBits(Mant09, n, 0)
      shift == IF Len(p) > MantBits THEN Len(p) - MantBits ELSE 0
      low   == SubSeq(p, 1, shift)
      high  == SubSeq(p, shift + 1, Len(p))
      half  == shift > 0 /\ low[shift] = 1
      above == \E i \in 1..(shift - 1) : low[i] = 1
      up    == half /\ (above \/ high[1] = 1)
  IN  [sig |-> IF up THEN IncBits(high) ELSE high, shift |-> shift]

\* int(n*0.9): truncation of sig * 2^(shift - 53)
IntMul09(n) ==
  LET f    == FloatMul09(n)
      drop == MantBits - f.shift
  IN  IF n = 0 THEN 0
      ELSE IF drop <= 0 THEN FromBits(f.sig)
      ELSE FromBits(SubSeq(f.sig, drop + 1, Len(f.sig)))

(***************************************************************************)
(* prepare.py: the corpus-to-tensor codec.                                 *)
(***************************************************************************)
VARIABLES
  pc,            \* the statement of prepare.py that runs next
  disk,          \* the paths that exist on disk
  input_text,    \* the content of consolidated_extracted_text.txt
  data,          \* the corpus as read
  chars,         \* the sorted distinct characters
  vocab_size,
  stoi,
  itos,
  train_data,
  val_data,
  train_ids,
  val_ids,
  train_bin,     \* the content of train.bin
  val_bin,       \* the content of val.bin
  meta,          \* the record pickled into meta.pkl
  summary,       \* the content of prepare_summary.txt
  probe          \* a call of encode and decode made once the script has run

codecVars ==
  << pc, disk, input_text, data, chars, vocab_size, stoi, itos, train_data,
     val_data, train_ids, val_ids, train_bin, val_bin, meta, summary, probe >>

\* the state of combine_extracted_texts.py
VARIABLES
  cpc,             \* the step of main() that runs next, or how main() ended
  root_exists,     \* whether ocr_google_vision_pdf exists
  fs,              \* the entries of the root directory, by name
  auto,            \* whether '--auto' is in sys.argv
  answer,          \* what the prompt got
  response,
  text_files,      \* the directory names of the (dir_name, file_path) pairs
  idx,             \* i of the loop of combine_text_files
  total_chars,
  success,
  out_file,        \* consolidated_extracted_text.txt
  summary_report   \* consolidation_summary.txt

consVars ==
  << cpc, root_exists, fs, auto, answer, response, text_files, idx,
     total_chars, success, out_file, summary_report >>

\* the state of ocr_google_vision.py
VARIABLES
  opc,            \* the step of main() that runs next, or how main() ended
  args,           \* the parsed command line
  pdf_dir,        \* the stems of the *.pdf files of the batch directory
  client,         \* self.client
  tested,         \* what test_connection returned in this run
  pdf_files,      \* the list the batch loop runs over
  cur,            \* i of the batch loop
  convert_calls,  \* calls of convert_from_path made in this run
  npages,         \* len(pages) of the document in process_pdf
  page_i,         \* i of the page loop
  outcomes,       \* what happened at each page of the document so far
  all_text,
  written,        \* the text written to each page file of the document
  api_calls,
  combined,       \* what process_pdf wrote to complete_extracted_text.txt
  results,        \* the outcome of each process_pdf call, in call order
  outdirs         \* the output directories on disk

ocrVars ==
  << opc, args, pdf_dir, client, tested, pdf_files, cur, convert_calls,
     npages, page_i, outcomes, all_text, written, api_calls, combined,
     results, outdirs >>

(***************************************************************************)
(* prepare.py on a corpus of more distinct characters than a model state   *)
(* can hold in full: the state keeps vocab_size and a stretch of            *)
(* consecutive characters of one split; chars, stoi and the arrays around  *)
(* the stretch are computed where a step needs them.                       *)
(***************************************************************************)
VARIABLES
  spc,            \* where lines 59-81 stand for the stretch
  s_vocab_size,   \* vocab_size of the corpus
  stretch,        \* consecutive characters of train_data or of val_data
  s_ids,          \* their elements of train_ids or of val_ids
  s_bin           \* their elements of train.bin or of val.bin

stretchVars == << spc, s_vocab_size, stretch, s_ids, s_bin >>

\* what a step of one script leaves alone: the state of the others
notCodec == << consVars, ocrVars, stretchVars >>
notCons == << codecVars, ocrVars, stretchVars >>
notOcr == << codecVars, consVars, stretchVars >>
notStretch == << codecVars, consVars, ocrVars >>

input_file_path == "ocr_google_vision_pdf/consolidated_extracted_text.txt"
data_dir == "prepared_training_data"
train_file == "prepared_training_data/train.bin"
val_file == "prepared_training_data/val.bin"
meta_file == "prepared_training_data/meta.pkl"
summary_file == "prepared_training_data/prepare_summary.txt"

\* the corpora the script is run on: any head, then a run of the filler
Corpora ==
  { h \o t : h \in Strs(Alphabet, MaxHead), t \in Strs(Filler, MaxPad) }

\* sorted(S): ascending code point order; a set that is an unbroken run of
\* code points is listed directly, any other set least element first
RECURSIVE SortAsc(_)
SortAsc(S) ==
  IF S = {} THEN <<>>
  ELSE LET m == CHOOSE x \in S : \A y \in S : x <= y
           n == Cardinality(S)
       IN  IF S = m..(m + n - 1)
           THEN <<m>> \o [i \in 1..(n - 1) |-> m + i]
           ELSE <<m>> \o SortAsc(S \ {m})

\* sorted(S, reverse=True)
RECURSIVE SortDesc(_)
SortDesc(S) ==
  IF S = {} THEN <<>>
  ELSE LET m == CHOOSE x \in S : \A y \in S : x >= y
       IN  <<m>> \o SortDesc(S \ {m})

\* chars = sorted(list(set(data)), reverse=True)
SortedCharsReversed(d) == SortDesc(Range(d))

\* chars = sorted(list(set(data)))
SortedChars(d) == SortAsc(Range(d))

\* { ch:i for i,ch in enumerate(cs) } with every index one too high
StoiFromOne(cs) ==
  [c \in Range(cs) |-> CHOOSE i \in DOMAIN cs : cs[i] = c]

\* stoi = { ch:i for i,ch in enumerate(cs) }: a later entry replaces an earlier;
\* in an unbroken ascending run of code points the index of c is c - cs[1]
StoiOf(cs) ==
  IF cs # <<>> /\ \A i \in DOMAIN cs : cs[i] = cs[1] + i - 1
  THEN [c \in cs[1]..cs[Len(cs)] |-> c - cs[1]]
  ELSE [c \in Range(cs) |->
          (CHOOSE i \in DOMAIN cs :
             cs[i] = c /\ \A j \in DOMAIN cs : cs[j] = c => j <= i) - 1]

\* itos = { i:ch for i,ch in enumerate(cs) }
ItosOf(cs) == [i \in 0..(Len(cs) - 1) |-> cs[i + 1]]

\* the outcome of a call: a value returned, or an exception raised
Returned(v) == [exc |-> "none", val |-> v]
Raised(e) == [exc |-> e, val |-> <<>>]

\* encode with stoi.get(c, 0): a missing key gets the index 0
EncodeDefault(st, s) ==
  Returned([i \in DOMAIN s |-> IF s[i] \in DOMAIN st THEN st[s[i]] ELSE 0])

\* encode(s) = [stoi[c] for c in s]; stoi[c] raises KeyError on a missing key
Encode(st, s) ==
  IF \A i \in DOMAIN s : s[i] \in DOMAIN st
  THEN Returned([i \in DOMAIN s |-> st[s[i]]])
  ELSE Raised("KeyError")

\* decode(l) = ''.join([itos[i] for i in l])
Decode(it, l) ==
  IF \A i \in DOMAIN l : l[i] \in DOMAIN it
  THEN Returned([i \in DOMAIN l |-> it[l[i]]])
  ELSE Raised("KeyError")

\* int(n*0.9) rounded up instead of truncated
SplitPointCeil(n) == (9 * n + 9) \div 10

\* int(n*0.9)
SplitPoint(n) == IntMul09(n)

\* np.array(ids, dtype=np.uint16): 16-bit unsigned elements. An element out of
\* range is reduced modulo 2^16 by a NumPy before 2.0 (silently before 1.24,
\* with a DeprecationWarning from 1.24) and raises OverflowError from 2.0 on
ToUint16(ids, numpy) ==
  IF \A i \in DOMAIN ids : ids[i] < 65536
  THEN Returned(ids)
  ELSE IF numpy = "wraps"
       THEN Returned([i \in DOMAIN ids |-> ids[i] % 65536])
       ELSE Raised("OverflowError")

\* the NumPy the script is run with: none is pinned by the repository
NumPys == {"wraps", "raises"}

NoProbe == [made |-> FALSE, s |-> <<>>, enc |-> Returned(<<>>), dec |-> Returned(<<>>)]

\* the interpreter before any statement has run
FreshCodec ==
  /\ data = <<>>
  /\ chars = <<>>
  /\ vocab_size = 0
  /\ stoi = <<>>
  /\ itos = <<>>
  /\ train_data = <<>>
  /\ val_data = <<>>
  /\ train_ids = <<>>
  /\ val_ids = <<>>
  /\ train_bin = <<>>
  /\ val_bin = <<>>
  /\ meta = <<>>
  /\ summary = <<>>
  /\ probe = NoProbe

InitCodec ==
  /\ pc = "makedirs"
  /\ \E present \in BOOLEAN, dir \in BOOLEAN :
       /\ disk = (IF present THEN {input_file_path} ELSE {})
                   \cup (IF dir THEN {data_dir} ELSE {})
       /\ input_text \in (IF present THEN Corpora ELSE {<<>>})
  /\ FreshCodec

\* prepare.py not running
IdleCodec ==
  /\ pc = "idle"
  /\ disk = {}
  /\ input_text = <<>>
  /\ FreshCodec

\* line 17: os.makedirs(data_dir, exist_ok=True)
Makedirs ==
  /\ UNCHANGED notCodec
  /\ pc = "makedirs"
  /\ disk' = disk \cup {data_dir}
  /\ pc' = "check_input"
  /\ UNCHANGED << input_text, data, chars, vocab_size, stoi, itos, train_data,
                  val_data, train_ids, val_ids, train_bin, val_bin, meta,
                  summary, probe >>

\* lines 19-23: exit(1) when the input file is absent
CheckInput ==
  /\ UNCHANGED notCodec
  /\ pc = "check_input"
  /\ pc' = IF input_file_path \in disk THEN "read" ELSE "exit1"
  /\ UNCHANGED << disk, input_text, data, chars, vocab_size, stoi, itos,
                  train_data, val_data, train_ids, val_ids, train_bin, val_bin,
                  meta, summary, probe >>

\* lines 25-29: data = f.read()
ReadData ==
  /\ UNCHANGED notCodec
  /\ pc = "read"
  /\ data' = input_text
  /\ pc' = "vocab"
  /\ UNCHANGED << disk, input_text, chars, vocab_size, stoi, itos, train_data,
                  val_data, train_ids, val_ids, train_bin, val_bin, meta,
                  summary, probe >>

\* lines 31-40: chars, vocab_size, stoi, itos
BuildVocab ==
  /\ UNCHANGED notCodec
  /\ pc = "vocab"
  /\ chars' = SortedChars(data)
  /\ vocab_size' = Len(chars')
  /\ stoi' = StoiOf(chars')
  /\ itos' = ItosOf(chars')
  /\ pc' = "split"
  /\ UNCHANGED << disk, input_text, data, train_data, val_data, train_ids,
                  val_ids, train_bin, val_bin, meta, summary, probe >>

\* lines 50-53: n = len(data); the prefix and the suffix at int(n*0.9)
Split ==
  /\ UNCHANGED notCodec
  /\ pc = "split"
  /\ train_data' = Prefix(data, SplitPoint(Len(data)))
  /\ val_data' = Suffix(data, SplitPoint(Len(data)))
  /\ pc' = "report_split"
  /\ UNCHANGED << disk, input_text, data, chars, vocab_size, stoi, itos,
                  train_ids, val_ids, train_bin, val_bin, meta, summary, probe >>

\* lines 55-57: len(train_data)/n*100 raises ZeroDivisionError when n = 0
ReportSplit ==
  /\ UNCHANGED notCodec
  /\ pc = "report_split"
  /\ pc' = IF Len(data) = 0 THEN "crash" ELSE "encode"
  /\ UNCHANGED << disk, input_text, data, chars, vocab_size, stoi, itos,
                  train_data, val_data, train_ids, val_ids, train_bin, val_bin,
                  meta, summary, probe >>

\* lines 59-64: train_ids = encode(train_data); val_ids = encode(val_data)
EncodeSplits ==
  /\ UNCHANGED notCodec
  /\ pc = "encode"
  /\ LET t == Encode(stoi, train_data)
         v == Encode(stoi, val_data)
     IN  IF t.exc = "none" /\ v.exc = "none"
         THEN /\ train_ids' = t.val
              /\ val_ids' = v.val
              /\ pc' = "export"
         ELSE /\ train_ids' = (IF t.exc = "none" THEN t.val ELSE train_ids)
              /\ val_ids' = val_ids
              /\ pc' = "crash"
  /\ UNCHANGED << disk, input_text, data, chars, vocab_size, stoi, itos,
                  train_data, val_data, train_bin, val_bin, meta, summary,
                  probe >>

\* lines 66-81: the arrays as uint16, written with tofile; both conversions
\* come before the first write
Export ==
  /\ UNCHANGED notCodec
  /\ pc = "export"
  /\ \E numpy \in NumPys :
       LET t == ToUint16(train_ids, numpy)
           v == ToUint16(val_ids, numpy)
       IN  IF t.exc = "none" /\ v.exc = "none"
           THEN /\ train_ids' = t.val
                /\ val_ids' = v.val
                /\ train_bin' = train_ids'
                /\ val_bin' = val_ids'
                /\ disk' = disk \cup {train_file, val_file}
                /\ pc' = "meta"
           ELSE /\ train_ids' = (IF t.exc = "none" THEN t.val ELSE train_ids)
                /\ val_ids' = val_ids
                /\ UNCHANGED << train_bin, val_bin, disk >>
                /\ pc' = "crash"
  /\ UNCHANGED << input_text, data, chars, vocab_size, stoi, itos, train_data,
                  val_data, meta, summary, probe >>

\* lines 83-98: the metadata record, pickled
SaveMeta ==
  /\ UNCHANGED notCodec
  /\ pc = "meta"
  /\ meta' = [ vocab_size  |-> vocab_size,
               itos        |-> itos,
               stoi        |-> stoi,
               total_chars |-> Len(data),
               train_chars |-> Len(train_data),
               val_chars   |-> Len(val_data),
               dtype       |-> "<class 'numpy.uint16'>" ]
  /\ disk' = disk \cup {meta_file}
  /\ pc' = "summary"
  /\ UNCHANGED << input_text, data, chars, vocab_size, stoi, itos, train_data,
                  val_data, train_ids, val_ids, train_bin, val_bin, summary,
                  probe >>

\* lines 100-139: the summary report with its round-trip self-check; an
\* exception inside the with block leaves the file created
WriteSummary ==
  /\ UNCHANGED notCodec
  /\ pc = "summary"
  /\ LET test_text    == Strip(Prefix(data, 100))
         test_encoded == Encode(stoi, test_text)
         test_decoded == IF test_encoded.exc = "none"
                         THEN Decode(itos, test_encoded.val)
                         ELSE Raised(test_encoded.exc)
     IN  /\ summary' =
              IF test_decoded.exc = "none"
              THEN [ total_chars  |-> Len(data),
                     vocab        |-> vocab_size,
                     train_chars  |-> Len(train_data),
                     val_chars    |-> Len(val_data),
                     train_tokens |-> Len(train_ids),
                     val_tokens   |-> Len(val_ids),
                     original     |-> test_text,
                     encoded      |-> Prefix(test_encoded.val, 20),
                     decoded      |-> test_decoded.val,
                     match        |-> (test_text = test_decoded.val) ]
              ELSE [ total_chars  |-> Len(data),
                     vocab        |-> vocab_size,
                     train_chars  |-> Len(train_data),
                     val_chars    |-> Len(val_data),
                     train_tokens |-> Len(train_ids),
                     val_tokens   |-> Len(val_ids) ]
         /\ pc' = IF test_decoded.exc = "none" THEN "done" ELSE "crash"
  /\ disk' = disk \cup {summary_file}
  /\ UNCHANGED << input_text, data, chars, vocab_size, stoi, itos, train_data,
                  val_data, train_ids, val_ids, train_bin, val_bin, meta,
                  probe >>

\* lines 42-48: encode and decode called on a string from outside the script,
\* with the vocabulary the script built
ProbeCodec ==
  /\ UNCHANGED notCodec
  /\ pc = "done"
  /\ \E s \in Strs(Alphabet \cup Filler, MaxProbe) :
       LET e == Encode(stoi, s)
       IN  probe' = [ made |-> TRUE,
                      s    |-> s,
                      enc  |-> e,
                      dec  |-> IF e.exc = "none" THEN Decode(itos, e.val)
                               ELSE Raised(e.exc) ]
  /\ UNCHANGED << pc, disk, input_text, data, chars, vocab_size, stoi, itos,
                  train_data, val_data, train_ids, val_ids, train_bin, val_bin,
                  meta, summary >>

NextCodec ==
  \/ Makedirs
  \/ CheckInput
  \/ ReadData
  \/ BuildVocab
  \/ Split
  \/ ReportSplit
  \/ EncodeSplits
  \/ Export
  \/ SaveMeta
  \/ WriteSummary
  \/ ProbeCodec

(***************************************************************************)
(* prepare.py, lines 59-81, on a stretch of a corpus of many characters.   *)
(***************************************************************************)
\* set(data) of a corpus of v distinct characters: the v code points from
\* U+E000 on, the first code point after the surrogates
WideChars(v) == 57344..(57344 + v - 1)

\* vocab_size: as many characters as uint16 has values, and up to MaxOver more
VocabSizes == { 65536 + over : over \in 0..MaxOver }

\* the characters a stretch is made of: the first of chars, the one at index
\* 65535 and the last
Marks(v) == { 57344, 57344 + 65535, 57344 + v - 1 }

\* lines 32 and 39: stoi of the corpus
WideStoi(v) == StoiOf(SortAsc(WideChars(v)))

InitStretch ==
  /\ spc = "encode"
  /\ s_vocab_size \in VocabSizes
  /\ stretch \in Strs(Marks(s_vocab_size), MaxStretch)
  /\ s_ids = <<>>
  /\ s_bin = <<>>

\* no stretch followed
IdleStretch ==
  /\ spc = "idle"
  /\ s_vocab_size = 0
  /\ stretch = <<>>
  /\ s_ids = <<>>
  /\ s_bin = <<>>

\* lines 59-64: encode of the split, at the stretch
EncodeStretch ==
  /\ UNCHANGED notStretch
  /\ spc = "encode"
  /\ LET e == Encode(WideStoi(s_vocab_size), stretch)
     IN  IF e.exc = "none"
         THEN /\ s_ids' = e.val
              /\ spc' = "export"
         ELSE /\ s_ids' = s_ids
              /\ spc' = "crash"
  /\ UNCHANGED << s_vocab_size, stretch, s_bin >>

\* lines 66-81: both arrays as uint16, then the writes. Every character of
\* chars is in data, so the index vocab_size - 1 is an element of train_ids or
\* of val_ids, and a conversion that raises on it ends the script before the
\* first write
ExportStretch ==
  /\ UNCHANGED notStretch
  /\ spc = "export"
  /\ \E numpy \in NumPys :
       LET top == ToUint16(<< s_vocab_size - 1 >>, numpy)
           own == ToUint16(s_ids, numpy)
       IN  IF top.exc = "none" /\ own.exc = "none"
           THEN /\ s_ids' = own.val
                /\ s_bin' = s_ids'
                /\ spc' = "written"
           ELSE /\ UNCHANGED << s_ids, s_bin >>
                /\ spc' = "crash"
  /\ UNCHANGED << s_vocab_size, stretch >>

NextStretch ==
  \/ EncodeStretch
  \/ ExportStretch


(***************************************************************************)
(* combine_extracted_texts.py: the consolidation component.                *)
(***************************************************************************)
\* the names an entry of the root can have: "B", "a", "ab", "b"
DirNames == { <<66>>, <<97>>, <<97, 98>>, <<98>> }

\* the contents of a complete_extracted_text.txt: empty, "\n", " a\n"
Contents == { <<>>, <<10>>, <<32, 97, 10>> }

\* what is at a name of the root
Absent == [kind |-> "absent", has_text |-> FALSE, readable |-> TRUE, content |-> <<>>]
PlainFile == [kind |-> "file", has_text |-> FALSE, readable |-> TRUE, content |-> <<>>]
BareDir == [kind |-> "dir", has_text |-> FALSE, readable |-> TRUE, content |-> <<>>]
TextDir(c) == [kind |-> "dir", has_text |-> TRUE, readable |-> TRUE, content |-> c]
\* a complete_extracted_text.txt that exists and whose open or read raises
UnreadableDir == [kind |-> "dir", has_text |-> TRUE, readable |-> FALSE, content |-> <<>>]

Entries ==
  {Absent, PlainFile, BareDir, UnreadableDir} \cup {TextDir(c) : c \in Contents}

\* "[No text content found]"
Placeholder ==
  << 91, 78, 111, 32, 116, 101, 120, 116, 32, 99, 111, 110, 116, 101, 110,
     116, 32, 102, 111, 117, 110, 100, 93 >>

\* str.lower() on one character (ASCII letters)
LowerChar(c) == IF c >= 65 /\ c <= 90 THEN c + 32 ELSE c

Lower(s) == [i \in DOMAIN s |-> LowerChar(s[i])]

\* what input() can return: "y", " Y ", "n", "", "yes"
Answers == { <<121>>, <<32, 89, 32>>, <<110>>, <<>>, <<121, 101, 115>> }

\* a < b for Python strings: lexicographic by code point
RECURSIVE LexLess(_, _)
LexLess(a, b) ==
  IF a = <<>> THEN b # <<>>
  ELSE IF b = <<>> THEN FALSE
  ELSE IF Head(a) # Head(b) THEN Head(a) < Head(b)
  ELSE LexLess(Tail(a), Tail(b))

RECURSIVE InsertByName(_, _)
InsertByName(sorted, x) ==
  IF sorted = <<>> THEN <<x>>
  ELSE IF LexLess(x, Head(sorted)) THEN <<x>> \o sorted
  ELSE <<Head(sorted)>> \o InsertByName(Tail(sorted), x)

\* the list left as iterdir() gave it
Unsorted(s) == s

\* text_files.sort(key=lambda x: x[0]): a stable sort by name
RECURSIVE SortByName(_)
SortByName(s) ==
  IF s = <<>> THEN <<>>
  ELSE InsertByName(SortByName(SubSeq(s, 1, Len(s) - 1)), s[Len(s)])

\* the orders in which iterdir() can yield the entries S
Orders(S) ==
  { o \in [1..Cardinality(S) -> S] :
      \A i, j \in 1..Cardinality(S) : o[i] = o[j] => i = j }

\* item.is_dir() alone, the existence of the text file left unchecked
IsDirOnly(e) == e.kind = "dir"

\* item.is_dir() and (item / "complete_extracted_text.txt").exists()
HasTextFile(e) == e.kind = "dir" /\ e.has_text

\* the loop of find_extracted_text_files over one enumeration
FoundIn(order, f) ==
  LET Keep(n) == HasTextFile(f[n]) IN SelectSeq(order, Keep)

\* a block written to the consolidated file
Block(k, i, name, content, n) ==
  [kind |-> k, i |-> i, name |-> name, content |-> content, n |-> n]

NotWritten == [state |-> "absent", blocks |-> <<>>]
\* a file left by an earlier run
OldFile == [state |-> "old", blocks |-> <<>>]

\* content = infile.read().strip(), with the placeholder for an empty result
ContentOrSkipped(raw) == Strip(raw)

ContentOf(raw) == IF Strip(raw) = <<>> THEN Placeholder ELSE Strip(raw)

\* main() before its first statement
FreshCons ==
  /\ answer = [kind |-> "none", text |-> <<>>]
  /\ response = <<>>
  /\ text_files = <<>>
  /\ idx = 0
  /\ total_chars = 0
  /\ success = FALSE

InitCons ==
  /\ cpc = "find"
  /\ root_exists \in BOOLEAN
  /\ fs \in [DirNames -> Entries]
  /\ Cardinality({n \in DirNames : fs[n] # Absent}) <= MaxEntries
  /\ root_exists = FALSE => \A n \in DirNames : fs[n] = Absent
  /\ auto \in BOOLEAN
  /\ FreshCons
  /\ \E old \in BOOLEAN :
       /\ old => root_exists
       /\ out_file = (IF old THEN OldFile ELSE NotWritten)
       /\ summary_report = (IF old THEN OldFile ELSE NotWritten)

\* combine_extracted_texts.py not running
IdleCons ==
  /\ cpc = "idle"
  /\ root_exists = FALSE
  /\ fs = [n \in DirNames |-> Absent]
  /\ auto = FALSE
  /\ FreshCons
  /\ out_file = NotWritten
  /\ summary_report = NotWritten

\* lines 17-32 and 149-155: find_extracted_text_files, then main's early return
Find ==
  /\ UNCHANGED notCons
  /\ cpc = "find"
  /\ IF ~root_exists
     THEN /\ text_files' = <<>>
          /\ cpc' = "crash"
     ELSE \E order \in Orders({n \in DirNames : fs[n] # Absent}) :
            /\ text_files' = SortByName(FoundIn(order, fs))
            /\ cpc' = IF text_files' = <<>> THEN "no_files" ELSE "confirm"
  /\ UNCHANGED << root_exists, fs, auto, answer, response, idx, total_chars,
                  success, out_file, summary_report >>

\* the confirmation with response.startswith('y') in place of response == 'y'
ConfirmByPrefix ==
  /\ UNCHANGED notCons
  /\ cpc = "confirm"
  /\ \/ /\ auto
        /\ answer' = [kind |-> "auto", text |-> <<>>]
        /\ response' = <<121>>
        /\ cpc' = "combine"
     \/ /\ ~auto
        /\ \E a \in Answers :
             /\ answer' = [kind |-> "typed", text |-> a]
             /\ response' = Lower(Strip(a))
             /\ cpc' = IF response' # <<>> /\ Head(response') = 121
                      THEN "combine" ELSE "cancelled"
     \/ /\ ~auto
        /\ \E k \in {"EOFError", "KeyboardInterrupt"} :
             answer' = [kind |-> k, text |-> <<>>]
        /\ response' = response
        /\ cpc' = "cancelled"
  /\ UNCHANGED << root_exists, fs, auto, text_files, idx, total_chars,
                  success, out_file, summary_report >>

\* lines 157-175: the --auto switch or the prompt
Confirm ==
  /\ UNCHANGED notCons
  /\ cpc = "confirm"
  /\ \/ /\ auto
        /\ answer' = [kind |-> "auto", text |-> <<>>]
        /\ response' = <<121>>
        /\ cpc' = "combine"
     \/ /\ ~auto
        /\ \E a \in Answers :
             /\ answer' = [kind |-> "typed", text |-> a]
             /\ response' = Lower(Strip(a))
             /\ cpc' = IF response' = <<121>> THEN "combine" ELSE "cancelled"
     \/ /\ ~auto
        /\ \E k \in {"EOFError", "KeyboardInterrupt"} :
             answer' = [kind |-> k, text |-> <<>>]
        /\ response' = response
        /\ cpc' = "cancelled"
  /\ UNCHANGED << root_exists, fs, auto, text_files, idx, total_chars,
                  success, out_file, summary_report >>

\* lines 34-60: the empty-list return, else the file opened and its header
CombineOpen ==
  /\ UNCHANGED notCons
  /\ cpc = "combine"
  /\ IF text_files = <<>>
     THEN /\ cpc' = "crash"
          /\ UNCHANGED << out_file, total_chars, idx >>
     ELSE /\ out_file' =
               [ state  |-> "written",
                 blocks |-> << Block("header", 0, <<>>, <<>>, Len(text_files)) >> ]
          /\ total_chars' = 0
          /\ idx' = 1
          /\ cpc' = "combine_doc"
  /\ UNCHANGED << root_exists, fs, auto, answer, response, text_files,
                  success, summary_report >>

\* one turn of the loop with no try around it: a read failure ends the run
CombineDocUncaught ==
  /\ UNCHANGED notCons
  /\ cpc = "combine_doc"
  /\ idx <= Len(text_files)
  /\ LET dir_name == text_files[idx]
         e        == fs[dir_name]
         content  == ContentOf(e.content)
     IN  IF e.readable
         THEN /\ out_file' =
                   [ out_file EXCEPT !.blocks =
                       Append(@, Block("document", idx, dir_name, content,
                                       Len(content))) ]
              /\ total_chars' = total_chars + Len(content)
              /\ idx' = idx + 1
              /\ cpc' = cpc
         ELSE /\ UNCHANGED << out_file, total_chars, idx >>
              /\ cpc' = "crash"
  /\ UNCHANGED << root_exists, fs, auto, answer, response, text_files,
                  success, summary_report >>

\* lines 62-93: one turn of the loop
CombineDoc ==
  /\ UNCHANGED notCons
  /\ cpc = "combine_doc"
  /\ idx <= Len(text_files)
  /\ LET dir_name == text_files[idx]
         e        == fs[dir_name]
         content  == ContentOf(e.content)
     IN  IF e.readable
         THEN /\ out_file' =
                   [ out_file EXCEPT !.blocks =
                       Append(@, Block("document", idx, dir_name, content,
                                       Len(content))) ]
              /\ total_chars' = total_chars + Len(content)
         ELSE /\ out_file' =
                   [ out_file EXCEPT !.blocks =
                       Append(@, Block("error", 0, dir_name, <<>>, 0)) ]
              /\ total_chars' = total_chars
  /\ idx' = idx + 1
  /\ UNCHANGED << cpc, root_exists, fs, auto, answer, response, text_files,
                  success, summary_report >>

\* lines 95-107: the footer, and the return of (True, total_chars)
CombineFooter ==
  /\ UNCHANGED notCons
  /\ cpc = "combine_doc"
  /\ idx > Len(text_files)
  /\ out_file' =
       [ out_file EXCEPT !.blocks =
           Append(@, Block("footer", 0, <<>>, <<>>, Len(text_files))) ]
  /\ success' = TRUE
  /\ cpc' = "summary"
  /\ UNCHANGED << root_exists, fs, auto, answer, response, text_files, idx,
                  total_chars, summary_report >>

\* lines 109-140 and 183-209: the summary report and the final messages
GenerateSummary ==
  /\ UNCHANGED notCons
  /\ cpc = "summary"
  /\ IF success
     THEN /\ summary_report' =
               [ state       |-> "written",
                 total_docs  |-> Len(text_files),
                 total_chars |-> total_chars,
                 blocks      |->
                   [ i \in 1..Len(text_files) |->
                       LET e == fs[text_files[i]]
                       IN  IF e.readable
                           THEN Block("entry", i, text_files[i], <<>>,
                                      Len(e.content))
                           ELSE Block("error", i, text_files[i], <<>>, 0) ] ]
          /\ cpc' = "complete"
     ELSE /\ summary_report' = summary_report
          /\ cpc' = "failed"
  /\ UNCHANGED << root_exists, fs, auto, answer, response, text_files, idx,
                  total_chars, success, out_file >>

NextCons ==
  \/ Find
  \/ Confirm
  \/ CombineOpen
  \/ CombineDoc
  \/ CombineFooter
  \/ GenerateSummary

(***************************************************************************)
(* ocr_google_vision.py: the OCR extraction component.                     *)
(***************************************************************************)
\* the stems of the PDF files a batch directory can hold: "a b", "a_b", "c"
PdfStems == { <<97, 32, 98>>, <<97, 95, 98>>, <<99>> }

\* the stem of the PDF of a single-document run: "d"
SinglePdf == <<100>>

\* safe_name = pdf_file.stem.replace(" ", "_")
SafeName(stem) == [i \in DOMAIN stem |-> IF stem[i] = 32 THEN 95 ELSE stem[i]]

\* the output directory of a document: args.output itself (the empty
\* relative path) for a single document, args.output/safe_name in a batch
OutputDir(mode, stem) == IF mode = "batch" THEN SafeName(stem) ELSE <<>>

Dirs == {SafeName(n) : n \in PdfStems} \cup {<<>>}

\* what the service does with one page image
ExtractOutcomes == {"text", "empty", "none_found", "api_error", "exception"}

\* extract_text_from_image: the string it returns
FastText(o) ==
  CASE o = "text"       -> "TEXT"
    [] o = "empty"      -> "No text detected"
    [] o = "none_found" -> "No text found in image"
    [] o = "api_error"  -> "API Error: <message>"
    [] o = "exception"  -> "Error processing image: <exception>"

\* get_detailed_text_info: a text_info dict, or None
DetailedInfo(o) ==
  CASE o = "text"  -> [none |-> FALSE, text |-> "TEXT"]
    [] o = "empty" -> [none |-> FALSE, text |-> ""]
    [] OTHER       -> [none |-> TRUE, text |-> ""]

\* the page text with the None of the detailed mode not looked at
PageTextUnchecked(detailed, o) ==
  IF detailed THEN DetailedInfo(o).text ELSE FastText(o)

\* lines 227-242: text of the page, by mode
PageText(detailed, o) ==
  IF detailed
  THEN IF DetailedInfo(o).none THEN "Error processing page"
       ELSE DetailedInfo(o).text
  ELSE FastText(o)

\* text or "No text detected"
TextOrDefault(t) == IF t = "" THEN "No text detected" ELSE t

\* the self-test ignored
ProceedAlways(t) == TRUE

\* if ocr.test_connection(): ...
MayProceed(t) == t = "passed"

NoDir == [made |-> FALSE, pages |-> 0, writers |-> {}, combined_by |-> {}]

\* process_pdf before its first statement
FreshPdf ==
  /\ npages = 0
  /\ page_i = 0
  /\ outcomes = <<>>
  /\ all_text = <<>>
  /\ written = <<>>
  /\ api_calls = 0
  /\ combined = <<>>

FreshOcr ==
  /\ client = "none"
  /\ tested = "untested"
  /\ pdf_files = <<>>
  /\ cur = 0
  /\ convert_calls = 0
  /\ FreshPdf
  /\ results = <<>>
  /\ outdirs = [d \in Dirs |-> NoDir]

InitOcr ==
  /\ opc = "main"
  /\ args \in [ mode        : {"test", "single", "batch", "usage"},
                detailed    : BOOLEAN,
                path_exists : BOOLEAN ]
  /\ args.mode \in {"test", "usage"} => ~args.detailed /\ ~args.path_exists
  /\ args.mode = "batch" => args.path_exists
  /\ pdf_dir \in SUBSET PdfStems
  /\ Cardinality(pdf_dir) <= MaxPdfs
  /\ args.mode # "batch" => pdf_dir = {}
  /\ FreshOcr

\* ocr_google_vision.py not running
IdleOcr ==
  /\ opc = "idle"
  /\ args = [mode |-> "usage", detailed |-> FALSE, path_exists |-> FALSE]
  /\ pdf_dir = {}
  /\ FreshOcr

unchangedPdf == << npages, page_i, outcomes, all_text, written, api_calls, combined >>

\* lines 354-400 and 318-324: the branch main takes, up to the construction
\* of the client; in a batch, the glob and its early return
Main ==
  /\ UNCHANGED notOcr
  /\ opc = "main"
  /\ CASE args.mode = "test" ->
            /\ opc' = "construct"
            /\ pdf_files' = pdf_files
       [] args.mode = "usage" ->
            /\ opc' = "done"
            /\ pdf_files' = pdf_files
       [] args.mode = "single" ->
            /\ opc' = IF args.path_exists THEN "construct" ELSE "done"
            /\ pdf_files' = IF args.path_exists THEN <<SinglePdf>> ELSE <<>>
       [] args.mode = "batch" ->
            \E order \in Orders(pdf_dir) :
              /\ pdf_files' = order
              /\ opc' = IF order = <<>> THEN "done" ELSE "construct"
  /\ UNCHANGED << args, pdf_dir, client, tested, cur, convert_calls, results,
                  outdirs, unchangedPdf >>

\* lines 24-42: GoogleVisionOCR(): the client, or None when its set-up raises
Construct ==
  /\ UNCHANGED notOcr
  /\ opc = "construct"
  /\ \E credentials \in BOOLEAN :
       client' = IF credentials THEN "client" ELSE "none"
  /\ opc' = "selftest"
  /\ UNCHANGED << args, pdf_dir, tested, pdf_files, cur, convert_calls,
                  results, outdirs, unchangedPdf >>

\* lines 44-68, 326-330, 365-380: test_connection and what main does with it
SelfTest ==
  /\ UNCHANGED notOcr
  /\ opc = "selftest"
  /\ IF client = "none"
     THEN tested' = "failed"
     ELSE \E r \in {"ok", "error_message", "exception"} :
            tested' = IF r = "ok" THEN "passed" ELSE "failed"
  /\ IF args.mode # "test" /\ MayProceed(tested')
     THEN /\ opc' = "pdf"
          /\ cur' = 1
     ELSE /\ opc' = "done"
          /\ cur' = cur
  /\ UNCHANGED << args, pdf_dir, client, pdf_files, convert_calls, results,
                  outdirs, unchangedPdf >>

\* the report of one document, and the move to the next
Reported(stem, dir, result) ==
  Append(results, [name |-> stem, dir |-> dir, result |-> result])

\* lines 188-218 and 334-341: one document begun: the client check, the
\* output directory, the conversion of the PDF to page images
StartPdf ==
  /\ UNCHANGED notOcr
  /\ opc = "pdf"
  /\ cur <= Len(pdf_files)
  /\ LET stem == pdf_files[cur]
         dir  == OutputDir(args.mode, stem)
     IN  IF client = "none"
         THEN /\ results' = Reported(stem, dir, "FAILED")
              /\ cur' = cur + 1
              /\ UNCHANGED << outdirs, convert_calls, opc >>
              /\ npages' = 0 /\ page_i' = 0
         ELSE /\ outdirs' = [outdirs EXCEPT ![dir].made = TRUE]
              /\ convert_calls' = convert_calls + 1
              /\ \E n \in 0..MaxPages :
                   /\ npages' = n
                   /\ IF n = 0
                      THEN /\ results' = Reported(stem, dir, "FAILED")
                           /\ cur' = cur + 1
                           /\ opc' = opc
                           /\ page_i' = 0
                      ELSE /\ results' = results
                           /\ cur' = cur
                           /\ opc' = "page"
                           /\ page_i' = 1
  /\ outcomes' = <<>>
  /\ all_text' = <<>>
  /\ written' = <<>>
  /\ api_calls' = 0
  /\ combined' = <<>>
  /\ UNCHANGED << args, pdf_dir, client, tested, pdf_files >>

\* one page, with the combined text given the text as extracted, not the
\* text or "No text detected" that the page file gets
ProcessPageRawCombined ==
  /\ UNCHANGED notOcr
  /\ opc = "page"
  /\ page_i <= npages
  /\ LET stem == pdf_files[cur]
         dir  == OutputDir(args.mode, stem)
     IN  \/ \E o \in ExtractOutcomes :
              LET text == PageText(args.detailed, o)
              IN  /\ outcomes' = Append(outcomes, o)
                  /\ api_calls' = api_calls + 1
                  /\ all_text' =
                       Append(all_text, [i |-> page_i, text |-> text])
                  /\ written' = Append(written, TextOrDefault(text))
                  /\ outdirs' =
                       [ outdirs EXCEPT
                           ![dir].pages = IF @ < page_i THEN page_i ELSE @,
                           ![dir].writers = @ \cup {stem} ]
                  /\ page_i' = page_i + 1
                  /\ UNCHANGED << opc, cur, results >>
         \* image_to_bytes raises: nothing in process_pdf catches it
         \/ /\ outcomes' = Append(outcomes, "bytes_error")
            /\ IF args.mode = "batch"
               THEN /\ results' = Reported(stem, dir, "ERROR")
                    /\ cur' = cur + 1
                    /\ opc' = "pdf"
               ELSE /\ results' = Reported(stem, dir, "raised")
                    /\ cur' = cur
                    /\ opc' = "crash"
            /\ UNCHANGED << api_calls, all_text, written, outdirs, page_i >>
  /\ UNCHANGED << args, pdf_dir, client, tested, pdf_files, convert_calls,
                  npages, combined >>

\* lines 220-265: one page: the image to bytes, the extraction, the page text
\* kept and written to its page file
ProcessPage ==
  /\ UNCHANGED notOcr
  /\ opc = "page"
  /\ page_i <= npages
  /\ LET stem == pdf_files[cur]
         dir  == OutputDir(args.mode, stem)
     IN  \/ \E o \in ExtractOutcomes :
              LET text == PageText(args.detailed, o)
              IN  /\ outcomes' = Append(outcomes, o)
                  /\ api_calls' = api_calls + 1
                  /\ all_text' =
                       Append(all_text, [i |-> page_i, text |-> TextOrDefault(text)])
                  /\ written' = Append(written, TextOrDefault(text))
                  /\ outdirs' =
                       [ outdirs EXCEPT
                           ![dir].pages = IF @ < page_i THEN page_i ELSE @,
                           ![dir].writers = @ \cup {stem} ]
                  /\ page_i' = page_i + 1
                  /\ UNCHANGED << opc, cur, results >>
         \* image_to_bytes raises: nothing in process_pdf catches it
         \/ /\ outcomes' = Append(outcomes, "bytes_error")
            /\ IF args.mode = "batch"
               THEN /\ results' = Reported(stem, dir, "ERROR")
                    /\ cur' = cur + 1
                    /\ opc' = "pdf"
               ELSE /\ results' = Reported(stem, dir, "raised")
                    /\ cur' = cur
                    /\ opc' = "crash"
            /\ UNCHANGED << api_calls, all_text, written, outdirs, page_i >>
  /\ UNCHANGED << args, pdf_dir, client, tested, pdf_files, convert_calls,
                  npages, combined >>

\* lines 267-314 and 345-346: the combined file, the summary, return True
FinishPdf ==
  /\ UNCHANGED notOcr
  /\ opc = "page"
  /\ page_i > npages
  /\ LET stem == pdf_files[cur]
         dir  == OutputDir(args.mode, stem)
     IN  /\ combined' = all_text
         /\ outdirs' =
              [ outdirs EXCEPT ![dir].combined_by = {stem},
                               ![dir].writers = @ \cup {stem} ]
         /\ results' = Reported(stem, dir, "SUCCESS")
  /\ cur' = cur + 1
  /\ opc' = "pdf"
  /\ UNCHANGED << args, pdf_dir, client, tested, pdf_files, convert_calls,
                  npages, page_i, outcomes, all_text, written, api_calls >>

\* line 352, and the return of main: no document is left
Finish ==
  /\ UNCHANGED notOcr
  /\ opc = "pdf"
  /\ cur > Len(pdf_files)
  /\ opc' = "done"
  /\ UNCHANGED << args, pdf_dir, client, tested, pdf_files, cur,
                  convert_calls, results, outdirs, unchangedPdf >>

NextOcr ==
  \/ Main
  \/ Construct
  \/ SelfTest
  \/ StartPdf
  \/ ProcessPage
  \/ FinishPdf
  \/ Finish

(***************************************************************************)
(* One specification for each script: the scripts share no state but the   *)
(* files, and each runs alone.                                             *)
(***************************************************************************)
vars == << codecVars, consVars, ocrVars, stretchVars >>

\* prepare.py runs alone
StartCodec == InitCodec /\ IdleCons /\ IdleOcr /\ IdleStretch

SpecCodec ==
  StartCodec
    /\ [][NextCodec]_vars

\* lines 59-81 of prepare.py run on a stretch of a corpus of many characters
StartStretch == InitStretch /\ IdleCodec /\ IdleCons /\ IdleOcr

SpecStretch ==
  StartStretch
    /\ [][NextStretch]_vars

\* combine_extracted_texts.py runs alone
StartCons == InitCons /\ IdleCodec /\ IdleOcr /\ IdleStretch

SpecCons ==
  StartCons
    /\ [][NextCons]_vars

\* ocr_google_vision.py runs alone
StartOcr == InitOcr /\ IdleCodec /\ IdleCons /\ IdleStretch

SpecOcr ==
  StartOcr
    /\ [][NextOcr]_vars

(***************************************************************************)
(* Properties of the codec.                                                *)
(***************************************************************************)
VocabBuilt == pc \in {"split", "report_split", "encode", "export", "meta",
                      "summary", "done", "crash"}

SplitMade == pc \in {"report_split", "encode", "export", "meta", "summary",
                     "done", "crash"}

\* C1: for every corpus and every string s made only of characters of the
\* corpus, encode(s) returns, decode of it returns, and the result is s
\* again; the summary's own round-trip self-check reports a match.
C1_RoundTrip ==
  /\ (probe.made /\ Range(probe.s) \subseteq Range(data)) =>
       /\ probe.enc.exc = "none"
       /\ probe.dec.exc = "none"
       /\ probe.dec.val = probe.s
  /\ pc = "done" => summary.match

C1_Witness ==
  /\ probe.made
  /\ probe.s = <<98, 97>>
  /\ Range(probe.s) \subseteq Range(data)
  /\ probe.enc.val = <<2, 1>>
  /\ probe.dec.val = <<98, 97>>

\* C2: vocab_size is the number of distinct characters of the corpus, stoi
\* gives each character its rank (from 0) among the distinct characters in
\* ascending code point order, and stoi and itos are mutually inverse between
\* the distinct characters and 0..vocab_size-1; the mapping is a function of
\* the set of characters alone, so two runs on one corpus agree.
C2_Vocabulary ==
  VocabBuilt =>
    /\ vocab_size = Cardinality(Range(data))
    /\ DOMAIN stoi = Range(data)
    /\ DOMAIN itos = 0..(vocab_size - 1)
    /\ \A c \in Range(data) :
         /\ stoi[c] = Cardinality({d \in Range(data) : d < c})
         /\ itos[stoi[c]] = c
    /\ \A i \in 0..(vocab_size - 1) : stoi[itos[i]] = i

C2_Witness ==
  /\ pc = "done"
  /\ data = <<98, 97, 61>>
  /\ vocab_size = 3
  /\ stoi[61] = 0 /\ stoi[97] = 1 /\ stoi[98] = 2

\* C3: the training split is the prefix of the corpus of length exactly
\* floor(0.9 * n), the validation split is the rest, so the two concatenated
\* are the corpus and their lengths add up to n.
C3_Split ==
  SplitMade =>
    /\ Len(train_data) = (9 * Len(data)) \div 10
    /\ train_data = SubSeq(data, 1, (9 * Len(data)) \div 10)
    /\ val_data = SubSeq(data, (9 * Len(data)) \div 10 + 1, Len(data))
    /\ train_data \o val_data = data
    /\ Len(train_data) + Len(val_data) = Len(data)

C3_Witness ==
  /\ pc = "done"
  /\ Len(data) = 10
  /\ Len(train_data) = 9
  /\ val_data = <<61>>
  /\ data[1] = 98

\* C6: encode of a string with a character that the vocabulary lacks ends in
\* an error: it returns no integer sequence and puts no index in the place
\* of the unknown character.
C6_UnknownCharRaises ==
  (probe.made /\ ~(Range(probe.s) \subseteq DOMAIN stoi)) =>
    /\ probe.enc.exc = "KeyError"
    /\ probe.enc.val = <<>>
    /\ probe.dec.exc # "none"

C6_Witness ==
  /\ probe.made
  /\ probe.s = <<97, 98>>
  /\ 97 \in DOMAIN stoi
  /\ 98 \notin DOMAIN stoi
  /\ probe.enc.exc = "KeyError"

(***************************************************************************)
(* Properties of the consolidation.                                        *)
(***************************************************************************)
\* the subdirectories of the root that hold a complete_extracted_text.txt
Discovered == {n \in DirNames : fs[n].kind = "dir" /\ fs[n].has_text}

\* the place of a discovered name in ascending lexicographic order, from 1
Rank(n) == 1 + Cardinality({m \in Discovered : LexLess(m, n)})

IsDocument(b) == b.kind = "document"

IsSection(b) == b.kind \in {"document", "error"}

\* the 'DOCUMENT i: <name>' blocks of the consolidated file, in file order
DocumentBlocks == SelectSeq(out_file.blocks, IsDocument)

\* the per-document parts of the consolidated file, in file order
Sections == SelectSeq(out_file.blocks, IsSection)

\* C4 as claimed: after a completed run the output has exactly one DOCUMENT
\* block for each discovered subdirectory, in ascending order of name with
\* the indices 1..N in that order, whatever the outcome of reading the files.
C4_OneBlockPerDiscovered ==
  cpc = "complete" =>
    /\ Len(DocumentBlocks) = Cardinality(Discovered)
    /\ \A k \in DOMAIN DocumentBlocks :
         /\ DocumentBlocks[k].name \in Discovered
         /\ DocumentBlocks[k].i = k
         /\ DocumentBlocks[k].i = Rank(DocumentBlocks[k].name)

\* C4 as amended: after a completed run the output has exactly one section
\* for each discovered subdirectory, in ascending lexicographic order of name,
\* whatever the order of enumeration; the section is a 'DOCUMENT i: <name>'
\* block, with i the subdirectory's place 1..N in that order, when its file
\* was read, and an error line naming the subdirectory when the read failed.
C4_OneSectionPerDiscovered ==
  cpc = "complete" =>
    /\ Len(Sections) = Cardinality(Discovered)
    /\ \A k \in DOMAIN Sections :
         /\ Sections[k].name \in Discovered
         /\ Rank(Sections[k].name) = k
         /\ IsDocument(Sections[k]) <=> fs[Sections[k].name].readable
         /\ IsDocument(Sections[k]) => Sections[k].i = k

C4_Witness ==
  /\ cpc = "complete"
  /\ Discovered = { <<66>>, <<97>>, <<97, 98>> }
  /\ ~fs[<<97>>].readable
  /\ Len(DocumentBlocks) = 2
  /\ DocumentBlocks[2].name = <<97, 98>>
  /\ DocumentBlocks[2].i = 3

\* C5: a discovered file that is empty or only whitespace still gets its
\* section, with the content '[No text content found]'; every document keeps
\* the index of its place among all discovered subdirectories; the document
\* counts of the header, of the footer and of the summary report count it.
C5_EmptyFilePlaceholder ==
  cpc = "complete" =>
    /\ \A n \in Discovered :
         (fs[n].readable /\ Strip(fs[n].content) = <<>>) =>
           /\ \E j \in DOMAIN out_file.blocks :
                out_file.blocks[j] =
                  Block("document", Rank(n), n, Placeholder, Len(Placeholder))
           /\ summary_report.blocks[Rank(n)].name = n
    /\ \A k \in DOMAIN DocumentBlocks :
         DocumentBlocks[k].i = Rank(DocumentBlocks[k].name)
    /\ out_file.blocks[1].kind = "header"
    /\ out_file.blocks[1].n = Cardinality(Discovered)
    /\ out_file.blocks[Len(out_file.blocks)].kind = "footer"
    /\ out_file.blocks[Len(out_file.blocks)].n = Cardinality(Discovered)
    /\ summary_report.total_docs = Cardinality(Discovered)
    /\ Len(summary_report.blocks) = Cardinality(Discovered)

C5_Witness ==
  /\ cpc = "complete"
  /\ fs[<<66>>] = TextDir(<<32, 97, 10>>)
  /\ fs[<<97>>] = TextDir(<<10>>)
  /\ fs[<<98>>] = TextDir(<<>>)
  /\ out_file.blocks[3] = Block("document", 2, <<97>>, Placeholder, 23)
  /\ out_file.blocks[4] = Block("document", 3, <<98>>, Placeholder, 23)
  /\ summary_report.total_docs = 3

\* C10: when no subdirectory of the root holds a complete_extracted_text.txt
\* (the root may hold no subdirectory at all), every step of the run leaves
\* the consolidated file and the summary report as they were, and the run
\* ends at once.
C10_NothingFoundNothingWritten ==
  [][ Discovered = {} =>
        /\ out_file' = out_file
        /\ summary_report' = summary_report
        /\ cpc' \in {"no_files", "crash"} ]_vars

C10_Witness ==
  /\ cpc = "no_files"
  /\ Discovered = {}
  /\ fs[<<97>>] = BareDir
  /\ fs[<<98>>] = PlainFile
  /\ out_file = OldFile
  /\ summary_report = OldFile

(***************************************************************************)
(* Properties of the OCR extraction.                                       *)
(***************************************************************************)
\* process_pdf has returned or raised for a document that had pages
DocReturned == opc \in {"pdf", "done", "crash"} /\ npages > 0

LastResult == results[Len(results)]

\* C7 as claimed: in both modes an API or conversion error on a page is
\* recorded as the text "Error processing page" for that page, the document
\* is not aborted, and the page files and the combined file get one entry
\* per page.
C7_ErrorPageText ==
  /\ \A k \in DOMAIN outcomes :
       outcomes[k] \in {"api_error", "exception", "bytes_error"} =>
         /\ k \in DOMAIN written
         /\ written[k] = "Error processing page"
         /\ all_text[k].text = "Error processing page"
  /\ DocReturned =>
       /\ LastResult.result = "SUCCESS"
       /\ Len(written) = npages
       /\ Len(combined) = npages

\* C7 as amended: an error of the extraction call on a page (an error
\* response or an exception) is recorded as the text of that page only:
\* "Error processing page" in the detailed mode, the "API Error: ..." or
\* "Error processing image: ..." message in the fast mode; the document goes
\* on, and when no page image fails to convert to bytes process_pdf returns
\* True with one page file and one combined entry per page.  An error of the
\* conversion of a page image to bytes is not caught: process_pdf raises at
\* that page and writes no combined file.
C7_ExtractionErrorInBand ==
  /\ \A k \in DOMAIN outcomes :
       /\ outcomes[k] \in {"api_error", "exception"} =>
            /\ k \in DOMAIN written
            /\ written[k] =
                 (IF args.detailed THEN "Error processing page"
                  ELSE IF outcomes[k] = "api_error" THEN "API Error: <message>"
                  ELSE "Error processing image: <exception>")
            /\ all_text[k] = [i |-> k, text |-> written[k]]
       /\ outcomes[k] = "text" => written[k] = "TEXT"
       /\ outcomes[k] = "bytes_error" => k = Len(outcomes) /\ k = Len(written) + 1
  /\ DocReturned =>
       IF \E k \in DOMAIN outcomes : outcomes[k] = "bytes_error"
       THEN /\ LastResult.result \in {"ERROR", "raised"}
            /\ combined = <<>>
       ELSE /\ LastResult.result = "SUCCESS"
            /\ Len(outcomes) = npages
            /\ Len(written) = npages
            /\ Len(combined) = npages
            /\ outdirs[LastResult.dir].pages >= npages
            /\ outdirs[LastResult.dir].combined_by = {LastResult.name}

C7_Witness ==
  /\ DocReturned
  /\ ~args.detailed
  /\ outcomes = <<"api_error", "text">>
  /\ written = <<"API Error: <message>", "TEXT">>
  /\ Len(combined) = 2
  /\ LastResult.result = "SUCCESS"

\* C8: in every run, a PDF is rasterized, a page submitted, a document
\* reported or an output directory touched only after the client was
\* constructed and test_connection returned True in the same run; when the
\* construction or the self-test fails the run ends there.
C8_NoPageBeforeSelfTest ==
  /\ ( \/ convert_calls > 0
       \/ api_calls > 0
       \/ outcomes # <<>>
       \/ written # <<>>
       \/ results # <<>>
       \/ \E d \in Dirs : outdirs[d] # NoDir )
     => (client = "client" /\ tested = "passed")
  /\ tested = "failed" => opc = "done"

C8_Witness ==
  /\ opc = "done"
  /\ args.mode = "batch"
  /\ Len(pdf_files) = 2
  /\ client = "client"
  /\ tested = "failed"
  /\ convert_calls = 0
  /\ \A d \in Dirs : outdirs[d] = NoDir

\* C9 as claimed: in a batch whose connectivity test passed, every PDF found
\* is attempted exactly once, each with its own output directory; a document
\* that fails or raises does not stop the batch, and a success or failure
\* outcome is reported for each document.
C9_BatchEveryPdfOwnDir ==
  (args.mode = "batch" /\ tested = "passed" /\ opc = "done") =>
    /\ Len(results) = Len(pdf_files)
    /\ \A i \in DOMAIN results :
         /\ results[i].name = pdf_files[i]
         /\ results[i].result \in {"SUCCESS", "FAILED", "ERROR"}
    /\ \A i, j \in DOMAIN results : results[i].dir = results[j].dir => i = j

\* the places in the consolidated file of the error lines that name n
ErrorLines(n) ==
  {j \in DOMAIN out_file.blocks :
     out_file.blocks[j].kind = "error" /\ out_file.blocks[j].name = n}

\* C11: a failure to read one document's file does not end the run; it is
\* written as one inline error line naming that document, every document that
\* sorts after it is consolidated with the index of its place among all
\* discovered documents, the footer is written, and the run reports success.
C11_ReadFailureInline ==
  /\ cpc = "crash" => ~root_exists
  /\ cpc = "complete" =>
       /\ success
       /\ out_file.blocks[Len(out_file.blocks)].kind = "footer"
       /\ summary_report.state = "written"
       /\ \A n \in Discovered :
            ~fs[n].readable =>
              /\ Cardinality(ErrorLines(n)) = 1
              /\ \A k \in DOMAIN DocumentBlocks : DocumentBlocks[k].name # n
              /\ \A m \in Discovered :
                   (LexLess(n, m) /\ fs[m].readable) =>
                     \E j \in DOMAIN out_file.blocks :
                       /\ \A e \in ErrorLines(n) : e < j
                       /\ out_file.blocks[j].kind = "document"
                       /\ out_file.blocks[j].name = m
                       /\ out_file.blocks[j].i = Rank(m)

C11_Witness ==
  /\ cpc = "complete"
  /\ success
  /\ fs[<<66>>] = TextDir(<<>>)
  /\ fs[<<97>>] = UnreadableDir
  /\ fs[<<98>>] = TextDir(<<32, 97, 10>>)
  /\ out_file.blocks[3] = Block("error", 0, <<97>>, <<>>, 0)
  /\ out_file.blocks[4] = Block("document", 3, <<98>>, <<97>>, 1)
  /\ out_file.blocks[5].kind = "footer"

\* C12 as claimed: when the consolidated corpus file is absent, the codec
\* step aborts and no step of it creates anything on disk: neither train.bin,
\* val.bin, meta.pkl, prepare_summary.txt nor the output location itself.
C12_AbsentInputNothingCreated ==
  [][ input_file_path \notin disk =>
        /\ disk' = disk
        /\ pc' \in {"check_input", "exit1"} ]_vars

\* C13: when process_pdf returns True for a document of N >= 1 pages, N page
\* files were written, one for each page 1..N in page order, N extraction
\* calls were counted, and the combined file is, in ascending page order,
\* each page's 'PAGE i' header followed by the text written to that page's
\* file.
C13_PagesAndCombinedAgree ==
  (DocReturned /\ LastResult.result = "SUCCESS") =>
    /\ npages >= 1
    /\ Len(written) = npages
    /\ Len(outcomes) = npages
    /\ api_calls = npages
    /\ outdirs[LastResult.dir].made
    /\ outdirs[LastResult.dir].pages >= npages
    /\ outdirs[LastResult.dir].combined_by = {LastResult.name}
    /\ combined = [k \in 1..npages |-> [i |-> k, text |-> written[k]]]

C13_Witness ==
  /\ DocReturned
  /\ LastResult.result = "SUCCESS"
  /\ args.detailed
  /\ npages = 2
  /\ outcomes = <<"empty", "text">>
  /\ written = <<"No text detected", "TEXT">>
  /\ api_calls = 2
  /\ combined = << [i |-> 1, text |-> "No text detected"],
                   [i |-> 2, text |-> "TEXT"] >>

\* the characters of a string that are not whitespace, in order
NonSpace(t) == LET Solid(c) == ~IsSpace(c) IN SelectSeq(t, Solid)

\* the run was confirmed: --auto, or the prompt answered "y" or "Y" with
\* nothing but whitespace around it
Confirmed ==
  \/ answer.kind = "auto" /\ auto
  \/ answer.kind = "typed" /\ NonSpace(answer.text) \in {<<121>>, <<89>>}

\* C14: the consolidated file and the summary report are written only in a
\* run that was confirmed; a run whose prompt was interrupted or answered
\* with anything else ends cancelled, with neither file created or modified.
C14_WriteOnlyAfterConfirmation ==
  /\ (out_file.state = "written" \/ summary_report.state = "written")
       => Confirmed
  /\ cpc \in {"combine", "combine_doc", "summary", "complete", "failed"}
       => Confirmed
  /\ (answer.kind # "none" /\ ~Confirmed) =>
       /\ cpc = "cancelled"
       /\ out_file \in {NotWritten, OldFile}
       /\ summary_report \in {NotWritten, OldFile}
       /\ out_file = summary_report

C14_Witness ==
  /\ cpc = "cancelled"
  /\ ~auto
  /\ answer = [kind |-> "typed", text |-> <<121, 101, 115>>]
  /\ response = <<121, 101, 115>>
  /\ Len(text_files) = 2
  /\ out_file = OldFile
  /\ summary_report = OldFile

\* what was persisted in the .bin files, once the export step is over
Exported == pc \in {"meta", "summary", "done"}

\* C15: for every corpus, the k-th 16-bit value persisted in train.bin (in
\* val.bin) is the vocabulary index of the k-th character of the training (the
\* validation) split, nothing truncated or wrapped modulo 2^16, and each array
\* has as many elements as its split has characters.
C15_PersistedIdsAreIndices ==
  /\ Exported =>
       /\ {train_file, val_file} \subseteq disk
       /\ Len(train_bin) = Len(train_data)
       /\ Len(val_bin) = Len(val_data)
       /\ \A k \in DOMAIN train_data : train_bin[k] = stoi[train_data[k]]
       /\ \A k \in DOMAIN val_data : val_bin[k] = stoi[val_data[k]]
  /\ spc = "written" =>
       /\ Len(s_bin) = Len(stretch)
       /\ \A k \in DOMAIN stretch :
            s_bin[k] = WideStoi(s_vocab_size)[stretch[k]]

\* C16: for every corpus file that exists, the empty one and one of a single
\* character included, the codec step ends with no unhandled error, having
\* written train.bin, val.bin, meta.pkl and prepare_summary.txt, and meta
\* records train_chars + val_chars = total_chars.
C16_EveryCorpusCompletes ==
  input_file_path \in disk =>
    /\ pc \notin {"crash", "exit1"}
    /\ pc = "done" =>
         /\ {train_file, val_file, meta_file, summary_file} \subseteq disk
         /\ meta.train_chars + meta.val_chars = meta.total_chars

====
